---- MODULE Spec2Model ----
(***************************************************************************)
(* A model of the financial-DNA aggregation and scoring code               *)
(* (financial_agents/agents.py), of the multi-agent fetch pipeline         *)
(* (multi_agent_finance/agent.py), of the retry decorator                  *)
(* (multi_agent_finance/utils.py) and of the MongoDB upsert                *)
(* (financial_agents/agents.py).                                           *)
(*                                                                         *)
(* Amounts are integers, counted in thousands of rupees.  A percentage the *)
(* code computes with a float division is kept as an exact fraction [n, d] *)
(* with d > 0, so that the thresholds the code compares it with are        *)
(* decided exactly.                                                        *)
(***************************************************************************)
EXTENDS Integers, Sequences, FiniteSets, TLC

\* ------------------------------------------------------------- bounds
\* The longest list of entries a payload carries.
MaxEntries == 2
\* The largest amount an entry carries.
MaxUnits == 2

\* ------------------------------------------------------------ helpers
SeqUpTo(S, n) == UNION {[1..k -> S] : k \in 0..n}

Max2(a, b) == IF a >= b THEN a ELSE b
Min2(a, b) == IF a <= b THEN a ELSE b
Abs(a) == IF a < 0 THEN 0 - a ELSE a

\* A fraction n/d, d > 0, and its comparisons with an integer k.
Rat(n, d) == [n |-> n, d |-> d]
RatGt(r, k) == r.n > k * r.d
RatLt(r, k) == r.n < k * r.d
RatGe(r, k) == r.n >= k * r.d
RatEq(r, k) == r.n = k * r.d

\* --------------------------------------------------- payload values
\* A key the payload does not carry (dict.get falls back to its default).
Missing == "<missing>"

\* The value found under an amount key: a number, a string that float()
\* rejects, or nothing (the key is absent and .get returns its default 0).
Num(n) == [t |-> "num", v |-> n]
NonNumeric == [t |-> "str", v |-> 0]
NoValue == [t |-> "absent", v |-> 0]

\* float(x.get(key, 0)): the number, 0 for an absent key; a non-numeric
\* string raises ValueError (see FloatRaises).
FloatOf(x) == IF x.t = "num" THEN x.v ELSE 0
FloatRaises(x) == x.t = "str"

\* A source of the data dict: absent, a payload that is no dict (a list:
\* .get raises AttributeError), or a dict.
Absent == [kind |-> "absent"]
WrongContainer == [kind |-> "list"]

\* ======================================================================
\* Aggregation and scoring: financial_agents/agents.py
\* ======================================================================

\* The labels an asset or liability entry carries (netWorthAttribute) and
\* the categories of a fund holding.  'equity' in cat.lower() holds of the
\* first category only.
Attrs == {"ASSET_TYPE_SAVINGS", "ASSET_TYPE_PROPERTY"}
Categories == {"Equity", "Debt"}
\* 'equity' in cat.lower(), for the category labels of the model.
EquityLabels == {"Equity", "equity", "Large Cap EQUITY"}
EquityLabelled(cat) == cat \in EquityLabels

RiskProfile == {"conservative", "moderate", "aggressive"}

\* _determine_risk_profile with both thresholds met from the threshold on.
_determine_risk_profile_AtLeast(diversification, savings_rate) ==
    IF (\E cat \in DOMAIN diversification : EquityLabelled(cat))
          /\ RatGe(savings_rate, 15)
    THEN "aggressive"
    ELSE IF Cardinality(DOMAIN diversification) >= 2 /\ RatGe(savings_rate, 10)
         THEN "moderate"
         ELSE "conservative"

\* _determine_risk_profile(diversification, savings_rate)
_determine_risk_profile(diversification, savings_rate) ==
    IF (\E cat \in DOMAIN diversification : EquityLabelled(cat))
          /\ RatGt(savings_rate, 15)
    THEN "aggressive"
    ELSE IF Cardinality(DOMAIN diversification) >= 2 /\ RatGt(savings_rate, 10)
         THEN "moderate"
         ELSE "conservative"

\* `credit_score and credit_score > k`: None and 0 are falsy.
CreditAbove(credit_score, k) ==
    credit_score.t = "num" /\ credit_score.v # 0 /\ credit_score.v > k

\* SavingsComponent that takes 15 off for a negative savings rate.
SavingsComponent_Penalty(savings_rate) ==
    IF RatGt(savings_rate, 20) THEN 40
    ELSE IF RatGt(savings_rate, 10) THEN 25
    ELSE IF RatGt(savings_rate, 0) THEN 15
    ELSE IF RatLt(savings_rate, 0) THEN 0 - 15
    ELSE 0

\* The three components _calculate_discipline_score adds before leverage.
SavingsComponent(savings_rate) ==
    IF RatGt(savings_rate, 20) THEN 40
    ELSE IF RatGt(savings_rate, 10) THEN 25
    ELSE IF RatGt(savings_rate, 0) THEN 15
    ELSE 0

DiversificationComponent(diversification) ==
    LET n == Cardinality(DOMAIN diversification)
    IN  IF n >= 3 THEN 30 ELSE IF n >= 2 THEN 20 ELSE IF n >= 1 THEN 10 ELSE 0

\* CreditComponent with each threshold met from the threshold on.
CreditComponent_AtLeast(credit_score) ==
    IF credit_score.t = "num" /\ credit_score.v >= 750 THEN 20
    ELSE IF credit_score.t = "num" /\ credit_score.v >= 650 THEN 15
    ELSE IF credit_score.t = "num" /\ credit_score.v >= 550 THEN 10
    ELSE 0

CreditComponent(credit_score) ==
    IF CreditAbove(credit_score, 750) THEN 20
    ELSE IF CreditAbove(credit_score, 650) THEN 15
    ELSE IF CreditAbove(credit_score, 550) THEN 10
    ELSE 0

\* LeverageComponent without the score for having no liabilities.
LeverageComponent_NoBonus(net_worth, liabilities) ==
    IF liabilities > 0
    THEN IF net_worth > 3 * liabilities THEN 10
         ELSE IF net_worth > 2 * liabilities THEN 7
         ELSE IF net_worth > liabilities THEN 5
         ELSE 0
    ELSE 0

\* ratio = net_worth / liabilities is compared with 3, 2 and 1 only when
\* liabilities > 0; no liabilities scores 10.
LeverageComponent(net_worth, liabilities) ==
    IF liabilities > 0
    THEN IF net_worth > 3 * liabilities THEN 10
         ELSE IF net_worth > 2 * liabilities THEN 7
         ELSE IF net_worth > liabilities THEN 5
         ELSE 0
    ELSE 10

\* _calculate_discipline_score(...)
_calculate_discipline_score(savings_rate, diversification, credit_score, net_worth, liabilities) ==
    Min2(SavingsComponent(savings_rate)
           + DiversificationComponent(diversification)
           + CreditComponent(credit_score)
           + LeverageComponent(net_worth, liabilities),
         100)

\* The comparison of a credit score that is a string raises TypeError:
\* `credit_score and credit_score > 750` evaluates the comparison of any
\* non-empty string.
CreditCompareRaises(credit_score) == credit_score.t = "str"

RecSavings == "Increase savings rate to at least 20% of income"
RecDiversify == "Diversify investments across more asset classes"
RecCredit == "Focus on improving credit score through timely payments"
RecPlan == "Implement a structured financial plan with clear goals"
RecMaintain == "Maintain current financial discipline and consider wealth management"

\* _generate_recommendations(...)
_generate_recommendations(savings_rate, diversification, credit_score, discipline_score) ==
    LET r1 == IF RatLt(savings_rate, 20) THEN <<RecSavings>> ELSE <<>>
        r2 == IF Cardinality(DOMAIN diversification) < 3
              THEN <<RecDiversify>> ELSE <<>>
        r3 == IF credit_score.t = "num" /\ credit_score.v # 0
                    /\ credit_score.v < 750
              THEN <<RecCredit>> ELSE <<>>
        r4 == IF discipline_score < 60 THEN <<RecPlan>> ELSE <<>>
        recommendations == r1 \o r2 \o r3 \o r4
    IN  IF recommendations = <<>> THEN <<RecMaintain>> ELSE recommendations

\* _generate_outlook(discipline_score, ...)
_generate_outlook(discipline_score) ==
    IF discipline_score >= 80 THEN "excellent"
    ELSE IF discipline_score >= 60 THEN "good"
    ELSE IF discipline_score >= 40 THEN "moderate"
    ELSE "needs attention"

\* annual_return = 0.08, in thousandths; the income floor 500000, the
\* freedom target 10000000 and the independence threshold 50000000, in
\* thousands of rupees.
annual_return_permille == 80
IncomeFloorK == 500
FreedomTargetK == 10000
IndependenceK == 50000

\* _get_milestones(years, wealth)
_get_milestones(years, wealth) ==
    (IF years >= 10 THEN <<"Achieved substantial asset base">> ELSE <<>>)
    \o (IF years >= 20 THEN <<"Building towards financial independence">> ELSE <<>>)
    \o (IF years >= 30 THEN <<"Approaching retirement readiness">> ELSE <<>>)
    \o (IF wealth > IndependenceK THEN <<"Achieved financial independence">> ELSE <<>>)


\* (1 + annual_return) ** years, in thousandths, rounded down at each year.
RECURSIVE Growth(_)
Growth(years) ==
    IF years = 0 THEN 1000
    ELSE (Growth(years - 1) * (1000 + annual_return_permille)) \div 1000

\* _generate_projection(current_net_worth, savings_rate, years)
_generate_projection(current_net_worth, savings_rate, years) ==
    LET annual_income == Max2((current_net_worth * 15) \div 100, IncomeFloorK)
        annual_savings == (annual_income * savings_rate.n) \div (100 * savings_rate.d)
        future_wealth == (current_net_worth * Growth(years)) \div 1000
        future_savings == IF annual_return_permille > 0
                          THEN (annual_savings * (Growth(years) - 1000)) \div annual_return_permille
                          ELSE annual_savings * years
        total_projected == future_wealth + future_savings
    IN  [projected_net_worth |-> total_projected,
         projected_age |-> 30 + years,
         financial_freedom_score |->
             IF total_projected >= FreedomTargetK
             THEN Rat(100, 1)
             ELSE Rat(total_projected * 100, FreedomTargetK),
         major_milestones |-> _get_milestones(years, total_projected)]

\* ---- the loops of _build_dna_from_data

\* asset.get('netWorthAttribute', 'Unknown')
AttrOf(entry) ==
    IF entry.netWorthAttribute = Missing THEN "Unknown" ELSE entry.netWorthAttribute

\* total_assets += value over the entries (and total_liabilities likewise)
RECURSIVE SumUnits(_)
SumUnits(entries) ==
    IF entries = <<>> THEN 0
    ELSE FloatOf(Head(entries).units) + SumUnits(Tail(entries))

\* asset_breakdown[asset_type] = value: a later entry of the same type
\* replaces the earlier one.
Breakdown(entries) ==
    [k \in {AttrOf(entries[i]) : i \in DOMAIN entries} |->
        LET last == CHOOSE i \in DOMAIN entries :
                        /\ AttrOf(entries[i]) = k
                        /\ \A j \in DOMAIN entries : AttrOf(entries[j]) = k => j <= i
        IN  FloatOf(entries[last].units)]

\* holding.get('category', 'Other')
CategoryOf(holding) ==
    IF holding.category = Missing THEN "Other" ELSE holding.category

\* total_mf_value = sum(float(h.get('currentValue', 0)) for h in holdings)
RECURSIVE SumCurrentValue(_)
SumCurrentValue(holdings) ==
    IF holdings = <<>> THEN 0
    ELSE FloatOf(Head(holdings).currentValue) + SumCurrentValue(Tail(holdings))

\* investment_diversification[category] += value: the holdings' values
\* grouped by category.
CategoryValue(holdings, category) ==
    SumCurrentValue(SelectSeq(holdings, LAMBDA h : CategoryOf(h) = category))

\* Percentage without the factor 100: the share as a fraction of 1.
Percentage_Fraction(value, total_mf_value) ==
    IF total_mf_value > 0 THEN Rat(value, total_mf_value) ELSE Rat(0, 1)

\* The conversion to percentages: value / total_mf_value * 100 when
\* total_mf_value > 0, else 0.
Percentage(value, total_mf_value) ==
    IF total_mf_value > 0 THEN Rat(value * 100, total_mf_value) ELSE Rat(0, 1)

Diversification(holdings) ==
    [c \in {CategoryOf(holdings[i]) : i \in DOMAIN holdings} |->
        Percentage(CategoryValue(holdings, c), SumCurrentValue(holdings))]

\* The amounts of all the transactions of all the accounts, in order.
RECURSIVE Flatten(_)
Flatten(seqs) == IF seqs = <<>> THEN <<>> ELSE Head(seqs) \o Flatten(Tail(seqs))

\* total_income += amount for amount > 0
RECURSIVE TotalIncome(_)
TotalIncome(amounts) ==
    IF amounts = <<>> THEN 0
    ELSE (IF FloatOf(Head(amounts)) > 0 THEN FloatOf(Head(amounts)) ELSE 0)
         + TotalIncome(Tail(amounts))

\* total_expenses += abs(amount) otherwise
RECURSIVE TotalExpenses(_)
TotalExpenses(amounts) ==
    IF amounts = <<>> THEN 0
    ELSE (IF FloatOf(Head(amounts)) > 0 THEN 0 ELSE Abs(FloatOf(Head(amounts))))
         + TotalExpenses(Tail(amounts))

\* The savings rate taken over the expenses.
SavingsRate_OverExpenses(total_income, total_expenses) ==
    IF total_expenses > 0
    THEN Rat((total_income - total_expenses) * 100, total_expenses)
    ELSE Rat(0, 1)

\* savings_rate = (income - expenses) / income * 100 if income > 0 else 0
SavingsRate(total_income, total_expenses) ==
    IF total_income > 0
    THEN Rat((total_income - total_expenses) * 100, total_income)
    ELSE Rat(0, 1)

\* epf_balance += float(establishment.get('epfBalance', 0))
RECURSIVE SumBalances(_)
SumBalances(balances) ==
    IF balances = <<>> THEN 0
    ELSE FloatOf(Head(balances)) + SumBalances(Tail(balances))

\* ---- the payloads of the five sources _build_dna_from_data reads
NetWorthPayload(assets, liabilities) ==
    [kind |-> "dict", assetValues |-> assets, liabilityValues |-> liabilities]
CreditPayload(score) == [kind |-> "dict", creditScore |-> score]
\* uans: one sequence of epfBalance values per UAN
EpfPayload(uans) == [kind |-> "dict", uanDetails |-> uans]
MfPayload(holdings) == [kind |-> "dict", holdings |-> holdings]
\* accounts: one sequence of transaction amounts per account
BankPayload(accounts) == [kind |-> "dict", accounts |-> accounts]

NoData ==
    [net_worth |-> Absent, credit_report |-> Absent, epf_details |-> Absent,
     mf_transactions |-> Absent, bank_transactions |-> Absent]

Present(source) == source.kind # "absent"
IsDict(source) == source.kind = "dict"

\* What _build_dna_from_data raises on the data, "" when it returns: the
\* first failing statement in program order.  A source that is no dict
\* fails at its .get (AttributeError); an amount float() rejects fails with
\* ValueError; a credit score that is a string fails at the comparisons of
\* _calculate_discipline_score (TypeError).
BuildError(data) ==
    LET nw == data.net_worth
        cr == data.credit_report
        epf == data.epf_details
        mf == data.mf_transactions
        bank == data.bank_transactions
    IN  IF Present(nw) /\ ~IsDict(nw) THEN "AttributeError"
        ELSE IF Present(nw) /\ \E i \in DOMAIN nw.assetValues :
                                   FloatRaises(nw.assetValues[i].units)
             THEN "ValueError"
        ELSE IF Present(nw) /\ \E i \in DOMAIN nw.liabilityValues :
                                   FloatRaises(nw.liabilityValues[i].units)
             THEN "ValueError"
        ELSE IF Present(cr) /\ ~IsDict(cr) THEN "AttributeError"
        ELSE IF Present(epf) /\ ~IsDict(epf) THEN "AttributeError"
        ELSE IF Present(epf) /\ \E i \in DOMAIN Flatten(epf.uanDetails) :
                                    FloatRaises(Flatten(epf.uanDetails)[i])
             THEN "ValueError"
        ELSE IF Present(mf) /\ ~IsDict(mf) THEN "AttributeError"
        ELSE IF Present(mf) /\ \E i \in DOMAIN mf.holdings :
                                   FloatRaises(mf.holdings[i].currentValue)
             THEN "ValueError"
        ELSE IF Present(bank) /\ ~IsDict(bank) THEN "AttributeError"
        ELSE IF Present(bank) /\ \E i \in DOMAIN Flatten(bank.accounts) :
                                     FloatRaises(Flatten(bank.accounts)[i])
             THEN "ValueError"
        ELSE IF Present(cr) /\ CreditCompareRaises(cr.creditScore) THEN "TypeError"
        ELSE ""

\* NetWorthOf with the liabilities left out.
NetWorthOf_AssetsOnly(total_assets, total_liabilities) == total_assets

\* total_net_worth = total_assets - total_liabilities
NetWorthOf(total_assets, total_liabilities) == total_assets - total_liabilities

\* The FinancialDNA _build_dna_from_data returns when nothing raises.
BuildDna(data) ==
    LET nw == data.net_worth
        cr == data.credit_report
        epf == data.epf_details
        mf == data.mf_transactions
        bank == data.bank_transactions
        total_assets == IF Present(nw) THEN SumUnits(nw.assetValues) ELSE 0
        total_liabilities == IF Present(nw) THEN SumUnits(nw.liabilityValues) ELSE 0
        total_net_worth == IF Present(nw)
                           THEN NetWorthOf(total_assets, total_liabilities) ELSE 0
        asset_breakdown == IF Present(nw) THEN Breakdown(nw.assetValues) ELSE <<>>
        liability_breakdown == IF Present(nw) THEN Breakdown(nw.liabilityValues) ELSE <<>>
        credit_score == IF Present(cr) THEN cr.creditScore ELSE NoValue
        epf_balance == IF Present(epf) THEN SumBalances(Flatten(epf.uanDetails)) ELSE 0
        investment_diversification ==
            IF Present(mf) THEN Diversification(mf.holdings) ELSE <<>>
        savings_rate ==
            IF Present(bank)
            THEN SavingsRate(TotalIncome(Flatten(bank.accounts)),
                             TotalExpenses(Flatten(bank.accounts)))
            ELSE Rat(0, 1)
        data_sources ==
            (IF Present(nw) THEN <<"net_worth">> ELSE <<>>)
            \o (IF Present(cr) THEN <<"credit_report">> ELSE <<>>)
            \o (IF Present(epf) THEN <<"epf_details">> ELSE <<>>)
            \o (IF Present(mf) THEN <<"mf_transactions">> ELSE <<>>)
            \o (IF Present(bank) THEN <<"bank_transactions">> ELSE <<>>)
        discipline_score ==
            _calculate_discipline_score(savings_rate, investment_diversification,
                                        credit_score, total_net_worth, total_liabilities)
    IN  [kind |-> "dna",
         total_net_worth |-> total_net_worth,
         total_assets |-> total_assets,
         total_liabilities |-> total_liabilities,
         asset_breakdown |-> asset_breakdown,
         liability_breakdown |-> liability_breakdown,
         investment_diversification |-> investment_diversification,
         risk_profile |-> _determine_risk_profile(investment_diversification, savings_rate),
         savings_rate |-> savings_rate,
         credit_score |-> credit_score,
         epf_balance |-> epf_balance,
         financial_discipline_score |-> discipline_score,
         recommended_strategies |->
             _generate_recommendations(savings_rate, investment_diversification,
                                       credit_score, discipline_score),
         future_outlook |-> _generate_outlook(discipline_score),
         projection_30_years |-> _generate_projection(total_net_worth, savings_rate, 30),
         projection_50_years |-> _generate_projection(total_net_worth, savings_rate, 50),
         projection_60_years |-> _generate_projection(total_net_worth, savings_rate, 60),
         data_sources_used |-> data_sources]

\* _build_dna_from_data(data, user_id, session_id): the profile, or the
\* exception that leaves the function.
_build_dna_from_data(data) ==
    IF BuildError(data) # ""
    THEN [kind |-> "raised", error |-> BuildError(data)]
    ELSE BuildDna(data)

\* ---- the data the specification of the aggregation draws from

Units == {Num(n) : n \in 0..MaxUnits}
SignedUnits == {Num(n) : n \in (0 - MaxUnits)..MaxUnits}

Entry == [netWorthAttribute : Attrs \cup {Missing}, units : Units]
Holding == [category : Categories \cup {Missing}, currentValue : Units]

\* The pairs of sequences over S that hold at most n elements together.
SeqPairs(S, n) ==
    UNION {{<<a, b>> : a \in [1..k -> S], b \in SeqUpTo(S, n - k)} : k \in 0..n}

\* One source varies and the others are absent.
NetWorthInputs ==
    {[NoData EXCEPT !.net_worth = NetWorthPayload(p[1], p[2])] : p \in SeqPairs(Entry, MaxEntries)}
MfInputs ==
    {[NoData EXCEPT !.mf_transactions = MfPayload(h)] : h \in SeqUpTo(Holding, MaxEntries)}
BankInputs ==
    {[NoData EXCEPT !.bank_transactions = BankPayload(a)] :
        a \in {<<>>} \cup {<<p[1]>> : p \in SeqPairs(SignedUnits, MaxEntries)}
                     \cup SeqPairs(SignedUnits, MaxEntries)}
EpfInputs ==
    {[NoData EXCEPT !.epf_details = EpfPayload(u)] :
        u \in {<<>>} \cup SeqPairs(Units \cup {NoValue}, MaxEntries)}
CreditInputs ==
    {[NoData EXCEPT !.credit_report = CreditPayload(c)] :
        c \in {NoValue, Num(0), Num(600), Num(700), Num(800)}}

\* Every source is absent, no dict, a dict with an amount float() rejects,
\* or a sample of sound data.
SampleEntry(units) == [netWorthAttribute |-> "ASSET_TYPE_SAVINGS", units |-> units]
SampleHolding(value) == [category |-> "Equity", currentValue |-> value]
MixedInputs ==
    [net_worth : {Absent, WrongContainer,
                  NetWorthPayload(<<SampleEntry(NonNumeric)>>, <<>>),
                  NetWorthPayload(<<SampleEntry(Num(2))>>, <<SampleEntry(Num(1))>>)},
     credit_report : {Absent, WrongContainer, CreditPayload(NonNumeric),
                      CreditPayload(Num(700))},
     epf_details : {Absent, WrongContainer, EpfPayload(<<(<<NonNumeric>>)>>),
                    EpfPayload(<<(<<Num(1)>>)>>)},
     mf_transactions : {Absent, WrongContainer, MfPayload(<<SampleHolding(NonNumeric)>>),
                        MfPayload(<<SampleHolding(Num(1))>>)},
     bank_transactions : {Absent, WrongContainer, BankPayload(<<(<<NonNumeric>>)>>),
                          BankPayload(<<(<<Num(2), Num(0 - 1)>>)>>)}]

DataInputs ==
    NetWorthInputs \cup MfInputs \cup BankInputs \cup EpfInputs \cup CreditInputs
    \cup MixedInputs

\* ======================================================================
\* The fetch pipeline: multi_agent_finance/agent.py
\* ======================================================================

\* The six fetch agents of ParallelDataFetcher, named by the output_key each
\* writes its result under in the session state.
Sources == {"net_worth_data", "credit_report_data", "epf_data", "mf_data",
            "bank_data", "stock_data"}

\* PRODUCTION_CONFIG["timeout_per_fetch"], in seconds.
timeout_per_fetch == 30
\* The seconds one step of the clock stands for.
TickSeconds == 15

\* What a fetch agent leaves under its output_key: nothing (the key stays
\* absent), sound data, a dict with "error" set, a dict with "incomplete" set.
StateKinds == {"none", "ok", "error", "incomplete"}

\* ParallelAgent ends when every sub-agent's run has ended.
AllEnded(fetchStatus) == \A f \in Sources : fetchStatus[f] = "finished"

\* AllEnded weakened to the first sub-agent that ends.
AllEnded_FirstCompleted(fetchStatus) == \E f \in Sources : fetchStatus[f] = "finished"

\* ParallelAgent(sub_agents=[...]): the run of the parallel phase is over.
JoinReady(fetchStatus) == AllEnded(fetchStatus)

\* ErrorHandlingAgent._run_async_impl: the error summary it writes to the
\* session state under "error_analysis".
MissingSources(st) == {f \in Sources : st[f] = "none"}
ErrorSources(st) == {f \in Sources : st[f] = "error"}
IncompleteSources(st) == {f \in Sources : st[f] = "incomplete"}

SystemStatus(health_percentage) ==
    IF RatGe(health_percentage, 80) THEN "healthy"
    ELSE IF RatGe(health_percentage, 60) THEN "degraded"
    ELSE "critical"

ErrorAnalysis(st) ==
    LET total_sources == Cardinality(Sources)
        total_errors == Cardinality(MissingSources(st)) + Cardinality(ErrorSources(st))
        successful_sources == total_sources - Cardinality(MissingSources(st))
        health_percentage == Rat(successful_sources * 100, total_sources)
    IN  [kind |-> "summary",
         total_errors |-> total_errors,
         total_warnings |-> Cardinality(IncompleteSources(st)),
         system_status |-> SystemStatus(health_percentage),
         health_percentage |-> health_percentage,
         successful_sources |-> successful_sources,
         total_sources |-> total_sources]

\* ======================================================================
\* The retry decorator: multi_agent_finance/utils.py
\* ======================================================================

\* async_retry(max_retries=3, delay=1.0, ...): the defaults.
default_max_retries == 3
default_delay == 1
\* The largest delay a decorator is built with.
MaxDelay == 2

\* LastAttempt counted one too far.
LastAttempt_OneMore(max_retries) == max_retries + 1

\* The last value of `attempt`: the loop runs over range(max_retries + 1)
\* and the handler gives up when attempt == max_retries.
LastAttempt(max_retries) == max_retries

\* A wait that grows by one delay per attempt.
WaitTime_Linear(cfg, n) == IF cfg.exponential_backoff THEN cfg.delay * (n + 1) ELSE cfg.delay

\* wait_time = delay * (2 ** attempt) if exponential_backoff else delay
WaitTime(cfg, n) == IF cfg.exponential_backoff THEN cfg.delay * (2 ^ n) ELSE cfg.delay

RetryConfigs ==
    [max_retries : 0..default_max_retries,
     delay : default_delay..MaxDelay,
     exponential_backoff : BOOLEAN]

\* ======================================================================
\* Persistence: store_in_mongodb, financial_agents/agents.py
\* ======================================================================

SessionIds == {"s1", "s2"}
\* The profiles a call may carry, each standing for one FinancialDNA value.
Profiles == {"dnaA", "dnaB"}

Doc(session_id, profile) == [session_id |-> session_id, profile |-> profile]

\* The documents of the collection the filter {'session_id': session_id}
\* matches, in the collection's order.
DocsOf(collection, session_id) ==
    SelectSeq(collection, LAMBDA d : d.session_id = session_id)

\* replace_one that inserts whether or not a document matches.
ReplaceOne_AlwaysInsert(collection, session_id, doc) == Append(collection, doc)

\* collection.replace_one({'session_id': session_id}, doc, upsert=True):
\* the first matching document is replaced; with none, doc is inserted.
ReplaceOne(collection, session_id, doc) ==
    IF \E i \in DOMAIN collection : collection[i].session_id = session_id
    THEN LET first == CHOOSE i \in DOMAIN collection :
                          /\ collection[i].session_id = session_id
                          /\ \A j \in DOMAIN collection :
                                 collection[j].session_id = session_id => i <= j
         IN  [collection EXCEPT ![first] = doc]
    ELSE Append(collection, doc)

\* The last two calls of a log, the new one included.
LastTwo(log, entry) ==
    IF Len(log) < 2 THEN Append(log, entry) ELSE <<log[2], entry>>

\* The conversation contexts a call of store_conversation_context may carry.
Contexts == {"ctxA", "ctxB"}

\* An except branch that lets the exception go on to the caller.
OnStoreException_Reraise == [raised |-> TRUE, logged |-> TRUE]

\* except Exception as e: logger.error(...): the exception is logged and
\* the function returns None to its caller.
OnStoreException == [raised |-> FALSE, logged |-> TRUE]

\* The end of the try block: logger.info, client.close(), return None.
OnStoreSuccess == [raised |-> FALSE, logged |-> FALSE]

NoCall == [fn |-> "none"]
CallOf(fn, session_id, ok, outcome) ==
    [fn |-> fn, session_id |-> session_id, ok |-> ok,
     raised |-> outcome.raised, logged |-> outcome.logged]

\* The callers whose store_in_mongodb coroutines may be in flight together
\* (a caller that retries is a caller that calls again).
Clients == {"c1", "c2"}
IdleUpsert == [pc |-> "idle"]

\* Whether the filter {'session_id': session_id} matches a document.
Matches(collection, session_id) ==
    \E i \in DOMAIN collection : collection[i].session_id = session_id

\* ======================================================================
\* The arguments the scoring functions are called with
\* ======================================================================

\* savings_rate, in percent: negative, zero, and both sides of 10, 15, 20.
\* The last is the rate of an income of 100,000 and expenses of 70,000.
SavingsRates ==
    {Rat(n, 1) : n \in {0 - 50, 0, 5, 10, 11, 15, 16, 20, 21}}
        \cup {SavingsRate(100, 70)}

\* The category labels of a diversification dict.
ScoreLabels == {"equity", "debt", "Large Cap EQUITY", "Other"}

\* {equity: 60, debt: 40}
SixtyForty ==
    [cat \in {"equity", "debt"} |-> IF cat = "equity" THEN Rat(60, 1) ELSE Rat(40, 1)]

\* The diversification dicts: the categories of any set of labels in equal
\* parts, and {equity: 60, debt: 40}.
Diversifications ==
    {[cat \in S |-> Rat(100, Cardinality(S))] : S \in SUBSET ScoreLabels}
        \cup {SixtyForty}

\* credit_score: None, 0, and both sides of 550, 650, 750.
CreditScores == {NoValue} \cup {Num(n) : n \in {0, 550, 551, 651, 750, 751}}

NetWorths == {0 - 5, 0, 2, 3, 4, 7}
Liabilities == {0 - 1, 0, 1, 2}

ScoreArgs ==
    [savings_rate : SavingsRates, diversification : Diversifications,
     credit_score : CreditScores, net_worth : NetWorths, liabilities : Liabilities]

\* The arguments of a run with no source: what _build_dna_from_data passes
\* on when data is empty.
NoScoreArgs ==
    [savings_rate |-> Rat(0, 1), diversification |-> [cat \in {} |-> Rat(0, 1)],
     credit_score |-> NoValue, net_worth |-> 0, liabilities |-> 0]

NotScored ==
    [discipline_score |-> NoValue, risk_profile |-> "none", recommendations |-> <<>>]

\* ======================================================================
\* The monitor: SystemMonitor, multi_agent_finance/monitoring.py
\* ======================================================================

\* The most record_agent_request calls made for one agent name.
MaxRecords == 2
\* The (success, response_time) arguments a call may carry: a success
\* that took 40 seconds, a failure after 10 seconds.
RecordInputs == {<<TRUE, 40>>, <<FALSE, 10>>}
\* health_check: the error rate (in percent) above which an agent makes
\* the system degraded, and the response time above which it is slow.
error_rate_threshold == 50
slow_response_seconds == 30

\* self.agent_metrics = {}
NoMetrics == [a \in {} |-> 0]

\* AgentMetrics(agent_name=agent_name): the dataclass defaults.
AgentMetrics ==
    [total_requests |-> 0, successful_requests |-> 0, failed_requests |-> 0,
     avg_response_time |-> Rat(0, 1), error_rate |-> Rat(0, 1)]

\* self.agent_metrics[agent_name] = value
WithAgent(metrics, agent_name, value) ==
    [a \in DOMAIN metrics \cup {agent_name} |->
        IF a = agent_name THEN value ELSE metrics[a]]

\* The running mean updated with the count before the increment.
NewAverage_CountBefore(avg, total_requests, response_time) ==
    Rat(avg.n * total_requests + response_time * avg.d,
        avg.d * (total_requests + 1))

\* (avg_response_time * (total_requests - 1) + response_time) / total_requests,
\* total_requests being the count after the increment.
NewAverage(avg, total_requests, response_time) ==
    Rat(avg.n * (total_requests - 1) + response_time * avg.d,
        avg.d * total_requests)

\* Recorded without the count of the failure.
Recorded_FailureUncounted(m, success, response_time) ==
    LET total == m.total_requests + 1
        succeeded == IF success THEN m.successful_requests + 1
                     ELSE m.successful_requests
    IN  [total_requests |-> total,
         successful_requests |-> succeeded,
         failed_requests |-> m.failed_requests,
         avg_response_time |-> NewAverage(m.avg_response_time, total, response_time),
         error_rate |-> Rat(m.failed_requests, total)]

\* Lines 33-47 of record_agent_request on one AgentMetrics object.
Recorded(m, success, response_time) ==
    LET total == m.total_requests + 1
        succeeded == IF success THEN m.successful_requests + 1
                     ELSE m.successful_requests
        failed == IF success THEN m.failed_requests ELSE m.failed_requests + 1
    IN  [total_requests |-> total,
         successful_requests |-> succeeded,
         failed_requests |-> failed,
         avg_response_time |-> NewAverage(m.avg_response_time, total, response_time),
         error_rate |-> Rat(failed, total)]

\* record_agent_request as a whole, run without interruption.
RecordAgentRequestOn(metrics, agent_name, success, response_time) ==
    LET known == IF agent_name \in DOMAIN metrics THEN metrics
                 ELSE WithAgent(metrics, agent_name, AgentMetrics)
    IN  WithAgent(known, agent_name,
                  Recorded(known[agent_name], success, response_time))

\* get_system_metrics: the "agents" part of the dict it returns; both rates
\* are percentages.
AgentReport(m) ==
    [total_requests |-> m.total_requests,
     success_rate |-> Rat(m.successful_requests * 100, Max2(m.total_requests, 1)),
     error_rate |-> Rat(m.error_rate.n * 100, m.error_rate.d),
     avg_response_time |-> m.avg_response_time]

\* health_check: the agents whose error rate is above the threshold, and
\* the agents it reports an issue for.
HighErrorRate(metrics) ==
    {a \in DOMAIN metrics :
        RatGt(AgentReport(metrics[a]).error_rate, error_rate_threshold)}
SlowResponse(metrics) ==
    {a \in DOMAIN metrics :
        RatGt(AgentReport(metrics[a]).avg_response_time, slow_response_seconds)}

\* A status that a slow agent degrades as well.
HealthStatusOf_SlowDegrades(metrics) ==
    IF HighErrorRate(metrics) \cup SlowResponse(metrics) = {}
    THEN "healthy" ELSE "degraded"

\* "healthy" if healthy else "degraded"
HealthStatusOf(metrics) ==
    IF HighErrorRate(metrics) = {} THEN "healthy" ELSE "degraded"

NoRead == [fn |-> "none"]

\* The threads that may call record_agent_request at the same time.
Threads == {"t1", "t2"}
IdleThread == [pc |-> "idle"]

\* ======================================================================
\* simple_build_dna and its background task, financial_agents/agents.py
\* ======================================================================

\* The most calls of simple_build_dna, and the seconds the clock may pass.
MaxBuilds == 3
MaxSeconds == 2

\* f"session_{datetime.now().strftime('%Y%m%d_%H%M%S')}": the clock read to
\* the second.
SessionIdAt(second) == <<"session", second>>

\* The session id simple_build_dna gives to its call number `call`.
SimpleSessionId(second, call) == SessionIdAt(second)

\* The data the call number n is handed.
DataOfCall(n) == <<"data", n>>

\* ======================================================================
\* build_conversation_context, financial_agents/agents.py
\* ======================================================================

\* The document _store_simple_dna writes: no projection_30_years key.
SimpleData == "simple"

\* The user_id field of a stored Financial DNA; _store_simple_dna and
\* _store_simple_context write the constant 'user_123'.
UserIdOf(profile) ==
    CASE profile = "dnaA" -> "user_A"
      [] profile = "dnaB" -> "user_B"
      [] OTHER -> "user_123"

\* The Financial DNA built for each session.
DnaOfSession == [s1 |-> "dnaA", s2 |-> "dnaB"]

\* None.
NoneDoc == [session_id |-> "none", profile |-> "none"]

\* collection.find_one({'session_id': session_id}).
FindOne(collection, session_id) ==
    IF Matches(collection, session_id)
    THEN DocsOf(collection, session_id)[1]
    ELSE NoneDoc

\* get_financial_dna_from_mongodb(session_id): None when the read raises.
get_financial_dna_from_mongodb(collection, session_id, reachable) ==
    IF reachable THEN FindOne(collection, session_id) ELSE NoneDoc

\* financial_dna['projection_30_years'] and the other two are present.
HasProjections(financial_dna) == financial_dna.profile \in Profiles

\* A context that names the constant user.
_build_context_from_dna_FixedUser(financial_dna) ==
    [session_id |-> financial_dna.session_id, user_id |-> "user_123", timeline_contexts |-> financial_dna.profile]

\* _build_context_from_dna(financial_dna): the ids and the projections are
\* copied from the document.
_build_context_from_dna(financial_dna) ==
    [session_id |-> financial_dna.session_id, user_id |-> UserIdOf(financial_dna.profile), timeline_contexts |-> financial_dna.profile]

\* The context document of _store_simple_context.
SimpleContext(session_id) ==
    [session_id |-> session_id, user_id |-> "user_123", timeline_contexts |-> SimpleData]

\* The three returns of build_conversation_context.
NoDnaFound == "No Financial DNA found"
BuiltContext == "Successfully built conversation context"
ErrorBuilding == "Error building conversation context"

NoBuild ==
    [session_id |-> "none", reachable |-> TRUE, read |-> NoneDoc, wrote |-> FALSE, message |-> "none", turn |-> 0]

\* ======================================================================
\* State
\* ======================================================================
VARIABLES
    data,           \* the data dict handed to _build_dna_from_data
    dna,            \* what the call produced: nothing yet, a profile, an exception
    phase,          \* where the run of DataProcessingPipeline stands
    fetch,          \* the run of each fetch agent
    state,          \* ctx.session.state: what lies under each output_key
    clock,          \* seconds since the parallel phase began
    aggSaw,         \* the fetch agents' runs as they stood when aggregation began
    error_analysis, \* the summary ErrorHandlingAgent wrote
    retryCfg,       \* the arguments the retry decorator was built with
    retryPc,        \* where the wrapper's coroutine stands
    attempt,        \* the wrapper's loop variable
    invocations,    \* how often the wrapper has called the wrapped function
    failures,       \* how many of these calls raised
    sleeps,         \* the wait times the wrapper has slept, in order
    retryResult,    \* what the wrapper returned: the value of which call
    store,          \* the financial_dna collection: its documents in order
    calls,          \* per session id, the last two store_in_mongodb calls
    contexts,       \* the conversation_context collection: its documents in order
    lastCall,       \* the last persistence call and how it ended
    upserts,        \* per client, the replace_one it has in flight
    lastDone,       \* per session id, the profile of the last upsert to finish
    agent_metrics,  \* monitor.agent_metrics: AgentMetrics by agent name
    health_status,  \* monitor.health_status
    record_calls,   \* per agent name, the record_agent_request calls completed
    latency_sum,    \* per agent name, the sum of the response times reported
    last_read,      \* what the last operation returned, if it was a read
    threads,        \* per thread, the record_agent_request call it is in
    scoreArgs,      \* the arguments the scoring functions are called with
    scored,         \* what the scoring functions returned
    wall,           \* datetime.now(), in seconds
    tasks,          \* the _store_simple_dna tasks created and not yet run
    built,          \* the session ids of the simple_build_dna calls that created a task
    ctxCall         \* the last call of build_conversation_context

aggVars == <<data, dna>>
pipeVars == <<phase, fetch, state, clock, aggSaw, error_analysis>>
retryVars == <<retryCfg, retryPc, attempt, invocations, failures, sleeps, retryResult>>
storeVars == <<store, calls, contexts, lastCall>>
upsertVars == <<upserts, lastDone>>
monitorVars == <<agent_metrics, health_status, record_calls, latency_sum, last_read>>
threadVars == <<threads>>
scoreVars == <<scoreArgs, scored>>
simpleVars == <<wall, tasks, built>>
contextVars == <<ctxCall>>
vars == <<aggVars, pipeVars, retryVars, storeVars, upsertVars, monitorVars, threadVars, scoreVars, simpleVars, contextVars>>
nonAggVars == <<pipeVars, retryVars, storeVars, upsertVars, monitorVars, threadVars, scoreVars, simpleVars, contextVars>>
nonPipeVars == <<aggVars, retryVars, storeVars, upsertVars, monitorVars, threadVars, scoreVars, simpleVars, contextVars>>
nonRetryVars == <<aggVars, pipeVars, storeVars, upsertVars, monitorVars, threadVars, scoreVars, simpleVars, contextVars>>
nonStoreVars == <<aggVars, pipeVars, retryVars, upsertVars, monitorVars, threadVars, scoreVars, simpleVars, contextVars>>
nonUpsertVars == <<aggVars, pipeVars, retryVars, calls, contexts, lastCall, monitorVars, threadVars, scoreVars, simpleVars, contextVars>>
nonMonitorVars == <<aggVars, pipeVars, retryVars, storeVars, upsertVars, scoreVars, simpleVars, contextVars>>
nonScoreVars == <<aggVars, pipeVars, retryVars, storeVars, upsertVars, monitorVars, threadVars, simpleVars, contextVars>>
nonSimpleVars == <<aggVars, pipeVars, retryVars, calls, contexts, lastCall, upsertVars, monitorVars, threadVars, scoreVars, contextVars>>
nonContextVars == <<aggVars, pipeVars, retryVars, store, calls, lastCall, upsertVars, monitorVars, threadVars, scoreVars, simpleVars>>

DefaultConfig ==
    [max_retries |-> default_max_retries, delay |-> default_delay,
     exponential_backoff |-> TRUE]

NotBuilt == [kind |-> "none"]
NoSnapshot == [f \in Sources |-> "unseen"]
NoSummary == [kind |-> "none"]

\* The state after construction: no call of the aggregation made, the
\* pipeline built and not yet run.
Constructed ==
    /\ data = NoData
    /\ dna = NotBuilt
    /\ phase = "created"
    /\ fetch = [f \in Sources |-> "idle"]
    /\ state = [f \in Sources |-> "none"]
    /\ clock = 0
    /\ aggSaw = NoSnapshot
    /\ error_analysis = NoSummary
    /\ retryCfg = DefaultConfig
    /\ retryPc = "ready"
    /\ attempt = 0
    /\ invocations = 0
    /\ failures = 0
    /\ sleeps = <<>>
    /\ retryResult = NoValue
    /\ store = <<>>
    /\ calls = [s \in SessionIds |-> <<>>]
    /\ contexts = <<>>
    /\ lastCall = NoCall
    /\ upserts = [c \in Clients |-> IdleUpsert]
    /\ lastDone = [s \in SessionIds |-> "none"]
    /\ agent_metrics = NoMetrics
    /\ health_status = "healthy"
    /\ record_calls = [a \in Sources |-> 0]
    /\ latency_sum = [a \in Sources |-> 0]
    /\ last_read = NoRead
    /\ threads = [t \in Threads |-> IdleThread]
    /\ scoreArgs = NoScoreArgs
    /\ scored = NotScored
    /\ wall = 0
    /\ tasks = {}
    /\ built = <<>>
    /\ ctxCall = NoBuild

\* The aggregation is handed any data of DataInputs.
InitAgg ==
    /\ data \in DataInputs
    /\ dna = NotBuilt
    /\ phase = "created"
    /\ fetch = [f \in Sources |-> "idle"]
    /\ state = [f \in Sources |-> "none"]
    /\ clock = 0
    /\ aggSaw = NoSnapshot
    /\ error_analysis = NoSummary
    /\ retryCfg = DefaultConfig
    /\ retryPc = "ready"
    /\ attempt = 0
    /\ invocations = 0
    /\ failures = 0
    /\ sleeps = <<>>
    /\ retryResult = NoValue
    /\ store = <<>>
    /\ calls = [s \in SessionIds |-> <<>>]
    /\ contexts = <<>>
    /\ lastCall = NoCall
    /\ upserts = [c \in Clients |-> IdleUpsert]
    /\ lastDone = [s \in SessionIds |-> "none"]
    /\ agent_metrics = NoMetrics
    /\ health_status = "healthy"
    /\ record_calls = [a \in Sources |-> 0]
    /\ latency_sum = [a \in Sources |-> 0]
    /\ last_read = NoRead
    /\ threads = [t \in Threads |-> IdleThread]
    /\ scoreArgs = NoScoreArgs
    /\ scored = NotScored
    /\ wall = 0
    /\ tasks = {}
    /\ built = <<>>
    /\ ctxCall = NoBuild

InitPipe == Constructed

\* ---------------------------------------------------------- aggregation
\* The call _build_dna_from_data(data, user_id, session_id).
Aggregate ==
    /\ dna = NotBuilt
    /\ dna' = _build_dna_from_data(data)
    /\ UNCHANGED <<data, nonAggVars>>

NextAgg == Aggregate

SpecAgg == InitAgg /\ [][NextAgg]_vars

\* ------------------------------------------------------------- pipeline
\* SequentialAgent runs its first sub-agent: ParallelAgent starts the six
\* fetch agents together.
StartParallel ==
    /\ phase = "created"
    /\ phase' = "parallel"
    /\ fetch' = [f \in Sources |-> "running"]
    /\ UNCHANGED <<state, clock, aggSaw, error_analysis, nonPipeVars>>

\* A fetch agent's run ends; what it produced lies under its output_key.
FetchFinish(f, kind) ==
    /\ phase = "parallel"
    /\ fetch[f] = "running"
    /\ fetch' = [fetch EXCEPT ![f] = "finished"]
    /\ state' = [state EXCEPT ![f] = kind]
    /\ UNCHANGED <<phase, clock, aggSaw, error_analysis, nonPipeVars>>

\* A fetch agent's call never resolves: its run stays open for good.
FetchStall(f) ==
    /\ phase = "parallel"
    /\ fetch[f] = "running"
    /\ fetch' = [fetch EXCEPT ![f] = "stalled"]
    /\ UNCHANGED <<phase, state, clock, aggSaw, error_analysis, nonPipeVars>>

\* A fetch agent's run raises.  Nothing between the agent and ParallelAgent
\* catches it: the exception leaves ParallelAgent and SequentialAgent, the
\* runs of the siblings still open are cancelled or left behind and what
\* they would have produced never reaches the session state.
FetchRaise(f) ==
    /\ phase = "parallel"
    /\ fetch[f] = "running"
    /\ fetch' = [g \in Sources |->
                    IF g = f THEN "raised"
                    ELSE IF fetch[g] \in {"running", "stalled"} THEN "abandoned"
                    ELSE fetch[g]]
    /\ phase' = "aborted"
    /\ UNCHANGED <<state, clock, aggSaw, error_analysis, nonPipeVars>>

\* Time passes while the parallel phase is open.  Nothing in the pipeline
\* reads the clock: timeout_per_fetch is never handed to an agent.
Tick ==
    /\ phase = "parallel"
    /\ clock <= timeout_per_fetch
    /\ clock' = clock + TickSeconds
    /\ UNCHANGED <<phase, fetch, state, aggSaw, error_analysis, nonPipeVars>>

\* ParallelAgent's run is over and SequentialAgent moves on to
\* DataAggregationAgent, which reads the session state.
BeginAggregation ==
    /\ phase = "parallel"
    /\ JoinReady(fetch)
    /\ phase' = "aggregate"
    /\ aggSaw' = fetch
    /\ UNCHANGED <<fetch, state, clock, error_analysis, nonPipeVars>>

\* DataAggregationAgent's run is over; ErrorHandlingAgent runs next.
BeginErrorHandling ==
    /\ phase = "aggregate"
    /\ phase' = "error_handler"
    /\ UNCHANGED <<fetch, state, clock, aggSaw, error_analysis, nonPipeVars>>

\* ErrorHandlingAgent._run_async_impl
HandleErrors ==
    /\ phase = "error_handler"
    /\ error_analysis' = ErrorAnalysis(state)
    /\ phase' = "done"
    /\ UNCHANGED <<fetch, state, clock, aggSaw, nonPipeVars>>

NextPipe ==
    \/ StartParallel
    \/ \E f \in Sources, kind \in StateKinds : FetchFinish(f, kind)
    \/ \E f \in Sources : FetchStall(f)
    \/ \E f \in Sources : FetchRaise(f)
    \/ Tick
    \/ BeginAggregation
    \/ BeginErrorHandling
    \/ HandleErrors

SpecPipe == InitPipe /\ [][NextPipe]_vars

\* ---------------------------------------------------------------- retry
\* A decorator built with any arguments of RetryConfigs.
InitRetry ==
    /\ retryCfg \in RetryConfigs
    /\ retryPc = "ready"
    /\ attempt = 0
    /\ invocations = 0
    /\ failures = 0
    /\ sleeps = <<>>
    /\ retryResult = NoValue
    /\ data = NoData
    /\ dna = NotBuilt
    /\ phase = "created"
    /\ fetch = [f \in Sources |-> "idle"]
    /\ state = [f \in Sources |-> "none"]
    /\ clock = 0
    /\ aggSaw = NoSnapshot
    /\ error_analysis = NoSummary
    /\ store = <<>>
    /\ calls = [s \in SessionIds |-> <<>>]
    /\ contexts = <<>>
    /\ lastCall = NoCall
    /\ upserts = [c \in Clients |-> IdleUpsert]
    /\ lastDone = [s \in SessionIds |-> "none"]
    /\ agent_metrics = NoMetrics
    /\ health_status = "healthy"
    /\ record_calls = [a \in Sources |-> 0]
    /\ latency_sum = [a \in Sources |-> 0]
    /\ last_read = NoRead
    /\ threads = [t \in Threads |-> IdleThread]
    /\ scoreArgs = NoScoreArgs
    /\ scored = NotScored
    /\ wall = 0
    /\ tasks = {}
    /\ built = <<>>
    /\ ctxCall = NoBuild

\* The wrapper is called: the loop starts with attempt = 0.
RetryEnter ==
    /\ retryPc = "ready"
    /\ retryPc' = "calling"
    /\ attempt' = 0
    /\ UNCHANGED <<retryCfg, invocations, failures, sleeps, retryResult, nonRetryVars>>

\* `return await func(*args, **kwargs)` returns.
AttemptSucceeds ==
    /\ retryPc = "calling"
    /\ invocations' = invocations + 1
    /\ retryPc' = "returned"
    /\ retryResult' = Num(invocations + 1)
    /\ UNCHANGED <<retryCfg, attempt, failures, sleeps, nonRetryVars>>

\* The call raises: the handler re-raises on the last attempt (`raise e`)
\* and otherwise computes wait_time and sleeps.
AttemptFails ==
    /\ retryPc = "calling"
    /\ invocations' = invocations + 1
    /\ failures' = failures + 1
    /\ IF attempt = LastAttempt(retryCfg.max_retries)
       THEN /\ retryPc' = "raised"
            /\ UNCHANGED sleeps
       ELSE /\ retryPc' = "sleeping"
            /\ sleeps' = Append(sleeps, WaitTime(retryCfg, attempt))
    /\ UNCHANGED <<retryCfg, attempt, retryResult, nonRetryVars>>

\* asyncio.sleep returns and the loop takes its next value; past the
\* range it ends and `raise last_exception` runs.
RetryWake ==
    /\ retryPc = "sleeping"
    /\ attempt' = attempt + 1
    /\ retryPc' = IF attempt + 1 <= LastAttempt(retryCfg.max_retries)
                  THEN "calling" ELSE "raised"
    /\ UNCHANGED <<retryCfg, invocations, failures, sleeps, retryResult, nonRetryVars>>

NextRetry ==
    \/ RetryEnter
    \/ AttemptSucceeds
    \/ AttemptFails
    \/ RetryWake

SpecRetry == InitRetry /\ [][NextRetry]_vars

\* The wrapped function and asyncio.sleep end, and the event loop resumes
\* the wrapper whenever it can go on.
SpecRetryFair == SpecRetry /\ WF_vars(NextRetry)

\* ---------------------------------------------------------- persistence
InitStore == Constructed

\* store_in_mongodb(financial_dna) with the store reachable: replace_one
\* with upsert=True runs.
StoreInMongodb(session_id, profile) ==
    /\ store' = ReplaceOne(store, session_id, Doc(session_id, profile))
    /\ calls' = [calls EXCEPT ![session_id] =
                    LastTwo(@, [profile |-> profile, ok |-> TRUE])]
    /\ lastCall' = CallOf("store_in_mongodb", session_id, TRUE, OnStoreSuccess)
    /\ UNCHANGED <<contexts, nonStoreVars>>

\* store_in_mongodb with the store unreachable: replace_one raises, the
\* except branch runs, nothing is written.
StoreInMongodbFails(session_id, profile) ==
    /\ calls' = [calls EXCEPT ![session_id] =
                    LastTwo(@, [profile |-> profile, ok |-> FALSE])]
    /\ lastCall' = CallOf("store_in_mongodb", session_id, FALSE, OnStoreException)
    /\ UNCHANGED <<store, contexts, nonStoreVars>>

\* store_conversation_context(context) with the store reachable.
StoreConversationContext(session_id, context) ==
    /\ contexts' = ReplaceOne(contexts, session_id, Doc(session_id, context))
    /\ lastCall' = CallOf("store_conversation_context", session_id, TRUE,
                          OnStoreSuccess)
    /\ UNCHANGED <<store, calls, nonStoreVars>>

\* store_conversation_context with the store unreachable.
StoreConversationContextFails(session_id, context) ==
    /\ lastCall' = CallOf("store_conversation_context", session_id, FALSE,
                          OnStoreException)
    /\ UNCHANGED <<store, calls, contexts, nonStoreVars>>

NextStore ==
    \/ \E s \in SessionIds, p \in Profiles : StoreInMongodb(s, p)
    \/ \E s \in SessionIds, p \in Profiles : StoreInMongodbFails(s, p)
    \/ \E s \in SessionIds, c \in Contexts : StoreConversationContext(s, c)
    \/ \E s \in SessionIds, c \in Contexts : StoreConversationContextFails(s, c)

SpecStore == InitStore /\ [][NextStore]_vars

\* ---------------------------------------------- upserts in flight together
\* The financial_dna collection carries no unique index on session_id
\* (MongoDBSetup.create_indexes indexes user_id of another collection), so
\* the server's upsert is a filter followed, when nothing matched, by an
\* insert; a replacement of a matched document is one step.
InitUpsert == Constructed

\* A client calls store_in_mongodb and reaches await collection.replace_one.
UpsertCall(c, session_id, profile) ==
    /\ upserts[c] = IdleUpsert
    /\ upserts' = [upserts EXCEPT ![c] =
                      [pc |-> "sent", session_id |-> session_id,
                       profile |-> profile]]
    /\ UNCHANGED <<store, lastDone, nonUpsertVars>>

\* The server runs the filter: a matched document is replaced at once and
\* the call ends; with no match the call goes on to insert.
UpsertFilter(c) ==
    /\ upserts[c].pc = "sent"
    /\ LET u == upserts[c] IN
       IF Matches(store, u.session_id)
       THEN /\ store' = ReplaceOne(store, u.session_id,
                                   Doc(u.session_id, u.profile))
            /\ upserts' = [upserts EXCEPT ![c] = IdleUpsert]
            /\ lastDone' = [lastDone EXCEPT ![u.session_id] = u.profile]
       ELSE /\ upserts' = [upserts EXCEPT ![c].pc = "inserting"]
            /\ UNCHANGED <<store, lastDone>>
    /\ UNCHANGED nonUpsertVars

\* The insert of an upsert whose filter matched nothing.
UpsertInsert(c) ==
    /\ upserts[c].pc = "inserting"
    /\ LET u == upserts[c] IN
       /\ store' = Append(store, Doc(u.session_id, u.profile))
       /\ lastDone' = [lastDone EXCEPT ![u.session_id] = u.profile]
    /\ upserts' = [upserts EXCEPT ![c] = IdleUpsert]
    /\ UNCHANGED nonUpsertVars

\* The store cannot be reached: replace_one raises, the except branch logs,
\* nothing is written.
UpsertUnreachable(c) ==
    /\ upserts[c].pc = "sent"
    /\ upserts' = [upserts EXCEPT ![c] = IdleUpsert]
    /\ UNCHANGED <<store, lastDone, nonUpsertVars>>

NextUpsert ==
    \/ \E c \in Clients, s \in SessionIds, p \in Profiles : UpsertCall(c, s, p)
    \/ \E c \in Clients : UpsertFilter(c)
    \/ \E c \in Clients : UpsertInsert(c)
    \/ \E c \in Clients : UpsertUnreachable(c)

SpecUpsert == InitUpsert /\ [][NextUpsert]_vars

\* -------------------------------------------------------------- monitor
InitMonitor == Constructed

\* The calls made so far, over all agent names.
TotalCalls == LET RECURSIVE Sum(_)
                  Sum(S) == IF S = {} THEN 0
                            ELSE LET a == CHOOSE x \in S : TRUE
                                 IN  record_calls[a] + Sum(S \ {a})
              IN  Sum(Sources)

\* monitor.record_agent_request(agent_name, success, response_time), called
\* from the event loop: the method has no await and runs to its end.
RecordAgentRequest(agent_name, success, response_time) ==
    /\ record_calls[agent_name] < MaxRecords
    /\ TotalCalls < Cardinality(Sources)
    /\ agent_metrics' = RecordAgentRequestOn(agent_metrics, agent_name, success,
                                             response_time)
    /\ record_calls' = [record_calls EXCEPT ![agent_name] = @ + 1]
    /\ latency_sum' = [latency_sum EXCEPT ![agent_name] = @ + response_time]
    /\ last_read' = NoRead
    /\ UNCHANGED <<health_status, threads, nonMonitorVars>>

\* monitor.get_system_metrics()
GetSystemMetrics ==
    /\ last_read' = [fn |-> "get_system_metrics", status |-> health_status,
                     agents |-> DOMAIN agent_metrics]
    /\ UNCHANGED <<agent_metrics, health_status, record_calls, latency_sum,
                   threads, nonMonitorVars>>

\* await monitor.health_check(): the try branch.
HealthCheck ==
    /\ health_status' = HealthStatusOf(agent_metrics)
    /\ last_read' = [fn |-> "health_check", status |-> HealthStatusOf(agent_metrics),
                     issues |-> HighErrorRate(agent_metrics)
                                    \cup SlowResponse(agent_metrics)]
    /\ UNCHANGED <<agent_metrics, record_calls, latency_sum, threads,
                   nonMonitorVars>>

NextMonitor ==
    \/ \E a \in Sources, r \in RecordInputs : RecordAgentRequest(a, r[1], r[2])
    \/ GetSystemMetrics
    \/ HealthCheck

SpecMonitor == InitMonitor /\ [][NextMonitor]_vars

\* ------------------------------------- record_agent_request on threads
\* SystemMonitor holds no lock: a thread inside record_agent_request can be
\* suspended between the membership test of line 29 and the assignment of
\* line 30, and between that assignment and the updates of lines 32-47.
InitThreads == Constructed

\* The calls begun and not yet ended.
InFlight == Cardinality({t \in Threads : threads[t] # IdleThread})

\* A thread enters record_agent_request(agent_name, success, response_time).
RecBegin(t, agent_name, success, response_time) ==
    /\ threads[t] = IdleThread
    /\ TotalCalls + InFlight < MaxRecords
    /\ threads' = [threads EXCEPT ![t] =
                      [pc |-> "check", agent_name |-> agent_name,
                       success |-> success, response_time |-> response_time]]
    /\ UNCHANGED <<monitorVars, nonMonitorVars>>

\* if agent_name not in self.agent_metrics:
RecCheck(t) ==
    /\ threads[t].pc = "check"
    /\ threads' = [threads EXCEPT ![t].pc =
                      IF threads[t].agent_name \in DOMAIN agent_metrics
                      THEN "update" ELSE "create"]
    /\ UNCHANGED <<monitorVars, nonMonitorVars>>

\* self.agent_metrics[agent_name] = AgentMetrics(agent_name=agent_name)
RecCreate(t) ==
    /\ threads[t].pc = "create"
    /\ agent_metrics' = WithAgent(agent_metrics, threads[t].agent_name, AgentMetrics)
    /\ threads' = [threads EXCEPT ![t].pc = "update"]
    /\ UNCHANGED <<health_status, record_calls, latency_sum, last_read,
                   nonMonitorVars>>

\* Lines 32-47 on the object the dict holds for the agent name; the call
\* returns.
RecUpdate(t) ==
    /\ threads[t].pc = "update"
    /\ LET c == threads[t] IN
       /\ agent_metrics' = WithAgent(agent_metrics, c.agent_name,
                                Recorded(agent_metrics[c.agent_name], c.success,
                                         c.response_time))
       /\ record_calls' = [record_calls EXCEPT ![c.agent_name] = @ + 1]
       /\ latency_sum' = [latency_sum EXCEPT ![c.agent_name] = @ + c.response_time]
    /\ last_read' = NoRead
    /\ threads' = [threads EXCEPT ![t] = IdleThread]
    /\ UNCHANGED <<health_status, nonMonitorVars>>

NextThreads ==
    \/ \E t \in Threads, a \in Sources, r \in RecordInputs : RecBegin(t, a, r[1], r[2])
    \/ \E t \in Threads : RecCheck(t)
    \/ \E t \in Threads : RecCreate(t)
    \/ \E t \in Threads : RecUpdate(t)

SpecThreads == InitThreads /\ [][NextThreads]_vars

\* -------------------------------------------------------------- scoring
\* The scoring functions are called with any arguments of ScoreArgs.
InitScore ==
    /\ data = NoData
    /\ dna = NotBuilt
    /\ phase = "created"
    /\ fetch = [f \in Sources |-> "idle"]
    /\ state = [f \in Sources |-> "none"]
    /\ clock = 0
    /\ aggSaw = NoSnapshot
    /\ error_analysis = NoSummary
    /\ retryCfg = DefaultConfig
    /\ retryPc = "ready"
    /\ attempt = 0
    /\ invocations = 0
    /\ failures = 0
    /\ sleeps = <<>>
    /\ retryResult = NoValue
    /\ store = <<>>
    /\ calls = [s \in SessionIds |-> <<>>]
    /\ contexts = <<>>
    /\ lastCall = NoCall
    /\ upserts = [c \in Clients |-> IdleUpsert]
    /\ lastDone = [s \in SessionIds |-> "none"]
    /\ agent_metrics = NoMetrics
    /\ health_status = "healthy"
    /\ record_calls = [a \in Sources |-> 0]
    /\ latency_sum = [a \in Sources |-> 0]
    /\ last_read = NoRead
    /\ threads = [t \in Threads |-> IdleThread]
    /\ scoreArgs \in ScoreArgs
    /\ scored = NotScored
    /\ wall = 0
    /\ tasks = {}
    /\ built = <<>>
    /\ ctxCall = NoBuild

\* _calculate_discipline_score(savings_rate, diversification, credit_score,
\* net_worth, liabilities)
CalculateDisciplineScore ==
    /\ scored.discipline_score = NoValue
    /\ scored' = [scored EXCEPT !.discipline_score =
                     Num(_calculate_discipline_score(
                             scoreArgs.savings_rate, scoreArgs.diversification,
                             scoreArgs.credit_score, scoreArgs.net_worth,
                             scoreArgs.liabilities))]
    /\ UNCHANGED <<scoreArgs, nonScoreVars>>

\* _determine_risk_profile(diversification, savings_rate)
DetermineRiskProfile ==
    /\ scored.risk_profile = "none"
    /\ scored' = [scored EXCEPT !.risk_profile =
                     _determine_risk_profile(scoreArgs.diversification,
                                             scoreArgs.savings_rate)]
    /\ UNCHANGED <<scoreArgs, nonScoreVars>>

\* _generate_recommendations(savings_rate, diversification, credit_score,
\* discipline_score), called with the score computed before, as
\* _build_dna_from_data calls it.
GenerateRecommendations ==
    /\ scored.discipline_score # NoValue
    /\ scored.recommendations = <<>>
    /\ scored' = [scored EXCEPT !.recommendations =
                     _generate_recommendations(
                         scoreArgs.savings_rate, scoreArgs.diversification,
                         scoreArgs.credit_score, scored.discipline_score.v)]
    /\ UNCHANGED <<scoreArgs, nonScoreVars>>

NextScore ==
    \/ CalculateDisciplineScore
    \/ DetermineRiskProfile
    \/ GenerateRecommendations

SpecScore == InitScore /\ [][NextScore]_vars

\* ----------------------------------------------------- simple_build_dna
InitSimple == Constructed

\* simple_build_dna(data) called on the event loop: the session id is read
\* off the clock and the task is created; the call returns at once.
SimpleBuildDna ==
    /\ Len(built) < MaxBuilds
    /\ LET n == Len(built) + 1
           session_id == SimpleSessionId(wall, n)
       IN  /\ tasks' = tasks \cup {[session_id |-> session_id, data |-> DataOfCall(n)]}
           /\ built' = Append(built, session_id)
    /\ UNCHANGED <<wall, store, nonSimpleVars>>

\* A second passes.
SecondPasses ==
    /\ wall < MaxSeconds
    /\ wall' = wall + 1
    /\ UNCHANGED <<tasks, built, store, nonSimpleVars>>

\* _store_simple_dna(session_id, data) runs: replace_one with upsert=True.
StoreSimpleDna(task) ==
    /\ task \in tasks
    /\ store' = ReplaceOne(store, task.session_id, Doc(task.session_id, task.data))
    /\ tasks' = tasks \ {task}
    /\ UNCHANGED <<wall, built, nonSimpleVars>>

\* _store_simple_dna finds the store unreachable: the error is logged.
StoreSimpleDnaFails(task) ==
    /\ task \in tasks
    /\ tasks' = tasks \ {task}
    /\ UNCHANGED <<wall, built, store, nonSimpleVars>>

NextSimple ==
    \/ SimpleBuildDna
    \/ SecondPasses
    \/ \E task \in tasks : StoreSimpleDna(task)
    \/ \E task \in tasks : StoreSimpleDnaFails(task)

SpecSimple == InitSimple /\ [][NextSimple]_vars

\* ------------------------------------------- build_conversation_context
InitContext == Constructed

\* _store_simple_dna(session_id, data) with the store reachable.
StoreSimpleDnaDoc(session_id) ==
    /\ store' = ReplaceOne(store, session_id, Doc(session_id, SimpleData))
    /\ UNCHANGED <<calls, contexts, lastCall, nonStoreVars>>

\* _store_simple_context(session_id) with the store reachable.
StoreSimpleContext(session_id) ==
    /\ contexts' = ReplaceOne(contexts, session_id, SimpleContext(session_id))
    /\ UNCHANGED <<store, calls, lastCall, nonStoreVars>>

\* build_conversation_context(session_id): the read, the early return, the
\* build (a KeyError on a document without projections goes to the except
\* branch) and the write, which logs an unreachable store.
BuildConversationContext(session_id, readReachable, writeReachable) ==
    LET financial_dna == get_financial_dna_from_mongodb(store, session_id, readReachable)
        built_ok == financial_dna # NoneDoc /\ HasProjections(financial_dna)
        conversation_context == _build_context_from_dna(financial_dna)
        wrote == built_ok /\ writeReachable
        message == IF financial_dna = NoneDoc THEN NoDnaFound
                   ELSE IF HasProjections(financial_dna) THEN BuiltContext
                   ELSE ErrorBuilding
    IN  /\ contexts' = IF wrote
                       THEN ReplaceOne(contexts, conversation_context.session_id, conversation_context)
                       ELSE contexts
        /\ ctxCall' = [session_id |-> session_id, reachable |-> readReachable, read |-> financial_dna, wrote |-> wrote, message |-> message, turn |-> 1 - ctxCall.turn]
        /\ UNCHANGED nonContextVars

NextContext ==
    \/ \E s \in SessionIds : StoreInMongodb(s, DnaOfSession[s])
    \/ \E s \in SessionIds : StoreSimpleDnaDoc(s)
    \/ \E s \in SessionIds : StoreSimpleContext(s)
    \/ \E s \in SessionIds, r, w \in BOOLEAN : BuildConversationContext(s, r, w)

SpecContext == InitContext /\ [][NextContext]_vars

\* ======================================================================
\* Properties of the aggregation (SpecAgg)
\* ======================================================================

Built == dna # NotBuilt
Returned == dna.kind = "dna"

\* C1: whatever the net-worth payload (any lists of assets and liabilities,
\* empty lists, no net-worth source at all), the profile satisfies
\* total_net_worth = total_assets - total_liabilities.
C1_NetWorthIdentity ==
    Returned => dna.total_net_worth = dna.total_assets - dna.total_liabilities

C1_Witness ==
    /\ Returned
    /\ Present(data.net_worth)
    /\ dna.total_assets > 0
    /\ dna.total_liabilities > 0

\* The sum of the fractions f[k], k \in keys.
RECURSIVE RatSum(_, _)
RatSum(f, keys) ==
    IF keys = {} THEN Rat(0, 1)
    ELSE LET k == CHOOSE x \in keys : TRUE
             rest == RatSum(f, keys \ {k})
         IN  Rat(f[k].n * rest.d + rest.n * f[k].d, f[k].d * rest.d)

DiversificationSum ==
    RatSum(dna.investment_diversification, DOMAIN dna.investment_diversification)

\* The claim C2 as written: a non-empty investment_diversification sums to
\* 100, also when every holding is worth 0.
C2_SumsTo100WheneverNonEmpty ==
    (Returned /\ DOMAIN dna.investment_diversification # {})
        => RatEq(DiversificationSum, 100)

\* C2, amended: when the holdings' total current value is positive the
\* percentages sum to 100; when it is not, every percentage is 0.
C2_SumsTo100WhenTotalPositive ==
    (Returned /\ Present(data.mf_transactions)) =>
        IF SumCurrentValue(data.mf_transactions.holdings) > 0
        THEN /\ DOMAIN dna.investment_diversification # {}
             /\ RatEq(DiversificationSum, 100)
        ELSE \A c \in DOMAIN dna.investment_diversification :
                 RatEq(dna.investment_diversification[c], 0)

C2_Witness ==
    /\ Returned
    /\ Present(data.mf_transactions)
    /\ SumCurrentValue(data.mf_transactions.holdings) > 0
    /\ Cardinality(DOMAIN dna.investment_diversification) >= 2

Projections == {"projection_30_years", "projection_50_years", "projection_60_years"}

\* The fields the sources feed are at their defaults.
AggregatesAtDefault ==
    /\ dna.total_net_worth = 0 /\ dna.total_assets = 0 /\ dna.total_liabilities = 0
    /\ DOMAIN dna.asset_breakdown = {}
    /\ DOMAIN dna.liability_breakdown = {}
    /\ DOMAIN dna.investment_diversification = {}
    /\ RatEq(dna.savings_rate, 0)
    /\ dna.credit_score = NoValue
    /\ dna.epf_balance = 0
    /\ dna.data_sources_used = <<>>
    /\ \A p \in Projections :
          /\ dna[p].projected_net_worth = 0
          /\ RatEq(dna[p].financial_freedom_score, 0)

\* The claim C8 as written: with no source in the data the call returns a
\* profile with every numeric field 0 and every map and list empty.
C8_NoSourcesAllDefaults ==
    (data = NoData /\ Built) =>
        /\ Returned
        /\ AggregatesAtDefault
        /\ dna.financial_discipline_score = 0
        /\ dna.recommended_strategies = <<>>
        /\ \A p \in Projections : dna[p].major_milestones = <<>>

\* C8, amended: with no source in the data the call returns a profile whose
\* aggregated fields are 0 or empty, whose discipline score is the 10 of
\* "no liabilities", whose recommendations are the three of a low score and
\* whose milestones are the three the horizon alone decides.
C8_NoSourcesDefaultsButScore ==
    (data = NoData /\ Built) =>
        /\ Returned
        /\ AggregatesAtDefault
        /\ dna.financial_discipline_score = 10
        /\ dna.recommended_strategies = <<RecSavings, RecDiversify, RecPlan>>
        /\ \A p \in Projections : Len(dna[p].major_milestones) = 3

C8_Witness == data = NoData /\ Returned

\* Some source of the data is structurally invalid.
HasInvalidSource ==
    \/ \E k \in DOMAIN data : data[k] = WrongContainer
    \/ BuildError(data) = "ValueError"

\* The claim C9: a structurally invalid payload never makes the aggregation
\* raise; the call still returns a profile.
C9_InvalidPayloadNeverRaises ==
    (HasInvalidSource /\ Built) => Returned

\* ======================================================================
\* Properties of the fetch pipeline (SpecPipe)
\* ======================================================================

\* The parallel phase has handed one result per fetch agent to the rest of
\* the pipeline, a stalled agent's marked missing.
CollectorReturned ==
    /\ phase \in {"aggregate", "error_handler", "done"}
    /\ \A f \in Sources : fetch[f] = "stalled" => state[f] = "none"

\* The claim C3: with one fetch agent that never resolves, the parallel
\* phase is over once the deadline timeout_per_fetch has passed, with one
\* result per agent and the stalled one marked missing.
C3_StalledFetcherCollectedByDeadline ==
    ((\E f \in Sources : fetch[f] = "stalled") /\ clock > timeout_per_fetch)
        => CollectorReturned

\* C4: aggregation never begins while a fetch agent's run is still open:
\* when DataAggregationAgent starts, the run of each of the six has ended.
C4_AggregationAfterAllFetchers ==
    /\ phase \in {"aggregate", "error_handler", "done"}
          => \A f \in Sources : fetch[f] = "finished"
    /\ aggSaw # NoSnapshot => \A f \in Sources : aggSaw[f] = "finished"

C4_Witness ==
    /\ phase = "aggregate"
    /\ aggSaw = fetch
    /\ \E f \in Sources : state[f] = "error"
    /\ \E f \in Sources : state[f] = "none"
    /\ \E f \in Sources : state[f] = "ok"

\* The claim C5: the failure of a fetch agent never cancels a sibling nor
\* keeps it from delivering its result.
C5_FailureNeverCancelsSiblings ==
    \A f \in Sources : fetch[f] # "abandoned"

\* ======================================================================
\* Properties of the retry decorator (SpecRetry)
\* ======================================================================

RetryOver == retryPc \in {"returned", "raised"}
AlwaysFailed == failures = invocations

\* The claim C6 as written: under the default policy a function that fails
\* every time is called at most 3 times.
C6_AtMostThreeInvocations ==
    (retryCfg.max_retries = default_max_retries /\ AlwaysFailed)
        => invocations <= 3

\* C6, amended: the wrapper calls the function at most max_retries + 1
\* times, the first attempt and max_retries retries: 4 under the default
\* policy, and exactly that often when every call fails.
C6_AtMostMaxRetriesPlusOne ==
    /\ invocations <= retryCfg.max_retries + 1
    /\ (retryPc = "raised" /\ AlwaysFailed)
          => invocations = retryCfg.max_retries + 1

C6_Witness ==
    /\ retryCfg = DefaultConfig
    /\ retryPc = "raised"
    /\ AlwaysFailed
    /\ invocations = 4

\* The claim C7: when every attempt has failed, the fetch ends with a
\* result (status error) and no exception leaves it.
C7_ExhaustionReturnsErrorResult ==
    (RetryOver /\ AlwaysFailed) => retryPc = "returned"

\* ======================================================================
\* Properties of the persistence (SpecStore)
\* ======================================================================

\* The last two calls for the session wrote the same profile.
SameUpsertTwice(s) ==
    /\ Len(calls[s]) = 2
    /\ calls[s][1].ok /\ calls[s][2].ok
    /\ calls[s][1].profile = calls[s][2].profile

\* C10: after two upserts of the same profile under the same session id
\* the collection holds exactly one document for the session id, and it
\* is the profile.
C10_UpsertIdempotent ==
    \A s \in SessionIds :
        SameUpsertTwice(s) => DocsOf(store, s) = <<Doc(s, calls[s][2].profile)>>

C10_Witness ==
    /\ SameUpsertTwice("s1")
    /\ DocsOf(store, "s2") # <<>>
    /\ Len(store) = 2

\* No upsert is in flight.
UpsertsQuiet == \A c \in Clients : upserts[c] = IdleUpsert

\* C11: after any interleaving of upserts for a session id, once none is
\* in flight the collection holds at most one document for the session id
\* and it is the whole profile of the last upsert to finish.
C11_OneDocumentLastWriterWins ==
    UpsertsQuiet =>
        \A s \in SessionIds :
            lastDone[s] # "none" => DocsOf(store, s) = <<Doc(s, lastDone[s])>>

\* A call of a persistence function found the store unreachable.
StoreUnreachable == lastCall # NoCall /\ ~lastCall.ok

\* C12: a persistence call that finds the store unreachable does not raise
\* to its caller, logs the failure and leaves both collections as they were.
C12_UnreachableStoreIsLoggedNotRaised ==
    [][StoreUnreachable' =>
          /\ ~lastCall'.raised
          /\ lastCall'.logged
          /\ store' = store
          /\ contexts' = contexts]_vars

C12_Witness ==
    /\ StoreUnreachable
    /\ lastCall.fn = "store_conversation_context"
    /\ store # <<>>
    /\ contexts # <<>>

\* ======================================================================
\* Properties of the health classification (SpecPipe, SpecMonitor,
\* SpecThreads)
\* ======================================================================

\* The sources whose fetch delivered sound data.
OkSources(st) == {f \in Sources : st[f] = "ok"}

\* C13: the overall status is derived from successes/total over the six
\* sources: healthy from 80 percent, degraded from 60 percent, critical
\* below, whatever the outcomes of the sources are.
C13_StatusFromSuccessRatio ==
    phase = "done" =>
        error_analysis.system_status =
            SystemStatus(Rat(Cardinality(OkSources(state)) * 100,
                             Cardinality(Sources)))

\* One failure and no success is recorded for each of the six sources.
AllSourcesFailedOnce ==
    \A a \in Sources :
        /\ a \in DOMAIN agent_metrics
        /\ agent_metrics[a].total_requests = 1
        /\ agent_metrics[a].failed_requests = 1

\* C14: after one failure recorded for each of the six sources and no
\* success, the health check reports the status critical.
C14_AllMissingIsCritical ==
    (AllSourcesFailedOnce /\ last_read.fn = "health_check") =>
        last_read.status = "critical"

\* No thread is inside record_agent_request.
ThreadsQuiet == \A t \in Threads : threads[t] = IdleThread

\* C15: once every concurrent call of record_agent_request has returned,
\* each agent's request count is the number of calls made for it, and its
\* successes and failures add up to it.
C15_NoRecordLost ==
    ThreadsQuiet =>
        \A a \in Sources :
            IF a \in DOMAIN agent_metrics
            THEN /\ agent_metrics[a].total_requests = record_calls[a]
                 /\ agent_metrics[a].successful_requests
                        + agent_metrics[a].failed_requests
                    = agent_metrics[a].total_requests
            ELSE record_calls[a] = 0

\* C16: after n >= 1 calls for an agent, one after another, its
\* avg_response_time is the arithmetic mean of the n response times and
\* its total_requests is n.
C16_AverageIsMean ==
    \A a \in DOMAIN agent_metrics :
        LET m == agent_metrics[a]
            n == record_calls[a]
        IN  /\ n >= 1
            /\ m.total_requests = n
            /\ m.avg_response_time.n * n = latency_sum[a] * m.avg_response_time.d

C16_Witness ==
    \E a \in DOMAIN agent_metrics :
        /\ record_calls[a] = 2
        /\ latency_sum[a] = 50
        /\ RatEq(agent_metrics[a].avg_response_time, 25)

\* C17: a read of the monitor (get_system_metrics, health_check) leaves
\* the agents' metrics and the stored health_status as they were.
C17_ReadsLeaveMonitorUnchanged ==
    [][last_read' # NoRead =>
          /\ agent_metrics' = agent_metrics
          /\ health_status' = health_status]_vars

\* ======================================================================
\* Properties of the scoring (SpecScore, SpecAgg)
\* ======================================================================

\* C18: the discipline score lies between 0 and 100 whatever the savings
\* rate (negative too), the number of categories, the credit score (None
\* too), the net worth and the liabilities are.
C18_DisciplineScoreInRange ==
    scored.discipline_score # NoValue =>
        /\ scored.discipline_score.v >= 0
        /\ scored.discipline_score.v <= 100

C18_Witness ==
    /\ scored.discipline_score = Num(100)
    /\ Cardinality(DOMAIN scoreArgs.diversification) = 4
    /\ scoreArgs.liabilities < 0

\* The (account, transaction) positions of a bank payload.
Transactions(accounts) ==
    UNION {{<<i, j>> : j \in DOMAIN accounts[i]} : i \in DOMAIN accounts}

\* The sum of f over the positions S.
RECURSIVE SumOver(_, _)
SumOver(S, f) ==
    IF S = {} THEN 0
    ELSE LET p == CHOOSE q \in S : TRUE
         IN  f[p] + SumOver(S \ {p}, f)

\* The income and the expenses of a bank payload as the claim defines
\* them: the positive amounts, and the absolute values of the others.
IncomeOf(accounts) ==
    LET T == Transactions(accounts)
    IN  SumOver(T, [p \in T |-> Max2(FloatOf(accounts[p[1]][p[2]]), 0)])
ExpensesOf(accounts) ==
    LET T == Transactions(accounts)
    IN  SumOver(T, [p \in T |-> Max2(0 - FloatOf(accounts[p[1]][p[2]]), 0)])

\* C19: savings_rate is (income - expenses) / income * 100 over the
\* transactions of all accounts, and 0 whenever the income is 0, whatever
\* the expenses are.
C19_SavingsRateFormula ==
    (Returned /\ IsDict(data.bank_transactions)) =>
        LET income == IncomeOf(data.bank_transactions.accounts)
            expenses == ExpensesOf(data.bank_transactions.accounts)
        IN  IF income = 0
            THEN RatEq(dna.savings_rate, 0)
            ELSE dna.savings_rate.n * income
                    = (income - expenses) * 100 * dna.savings_rate.d

C19_Witness ==
    /\ Returned
    /\ IsDict(data.bank_transactions)
    /\ Len(data.bank_transactions.accounts) = 2
    /\ IncomeOf(data.bank_transactions.accounts) = 1
    /\ ExpensesOf(data.bank_transactions.accounts) = 2
    /\ RatEq(dna.savings_rate, 0 - 100)

\* C20: the risk profile is aggressive exactly when some category is
\* equity-labelled and savings_rate > 15, otherwise moderate exactly when
\* there are at least 2 categories and savings_rate > 10, otherwise
\* conservative; {equity: 60, debt: 40} with savings_rate 20 is aggressive.
C20_RiskProfileRule ==
    scored.risk_profile # "none" =>
        LET d == scoreArgs.diversification
            r == scoreArgs.savings_rate
            equity == \E cat \in DOMAIN d : cat \in EquityLabels
            aggressive == equity /\ r.n > 15 * r.d
            moderate == ~aggressive /\ Cardinality(DOMAIN d) >= 2 /\ r.n > 10 * r.d
        IN  /\ scored.risk_profile \in RiskProfile
            /\ (scored.risk_profile = "aggressive") <=> aggressive
            /\ (scored.risk_profile = "moderate") <=> moderate
            /\ (scored.risk_profile = "conservative") <=> (~aggressive /\ ~moderate)
            /\ (d = SixtyForty /\ r = Rat(20, 1)) => scored.risk_profile = "aggressive"

C20_Witness ==
    /\ scoreArgs.diversification = SixtyForty
    /\ scoreArgs.savings_rate = Rat(20, 1)
    /\ scored.risk_profile = "aggressive"

\* The four components as the rule states them.
SavingsPoints(r) ==
    IF r.n > 20 * r.d THEN 40 ELSE IF r.n > 10 * r.d THEN 25
    ELSE IF r.n > 0 THEN 15 ELSE 0
CategoryPoints(n) == IF n >= 3 THEN 30 ELSE IF n = 2 THEN 20 ELSE IF n = 1 THEN 10 ELSE 0
CreditPoints(c) ==
    IF c.t # "num" THEN 0
    ELSE IF c.v > 750 THEN 20 ELSE IF c.v > 650 THEN 15
    ELSE IF c.v > 550 THEN 10 ELSE 0
LeveragePoints(net_worth, liabilities) ==
    IF liabilities = 0 THEN 10
    ELSE IF net_worth > 3 * liabilities THEN 10
    ELSE IF net_worth > 2 * liabilities THEN 7
    ELSE IF net_worth > liabilities THEN 5
    ELSE 0

\* C21: for liabilities >= 0 the discipline score is the sum of the
\* savings, diversification, credit and leverage components of the rule;
\* income 100000 and expenses 70000 give savings_rate 30 and 40 points.
C21_ScoreIsSumOfComponents ==
    (scored.discipline_score # NoValue /\ scoreArgs.liabilities >= 0) =>
        /\ scored.discipline_score.v =
               SavingsPoints(scoreArgs.savings_rate)
                 + CategoryPoints(Cardinality(DOMAIN scoreArgs.diversification))
                 + CreditPoints(scoreArgs.credit_score)
                 + LeveragePoints(scoreArgs.net_worth, scoreArgs.liabilities)
        /\ scoreArgs.savings_rate = SavingsRate(100, 70) =>
               /\ RatEq(scoreArgs.savings_rate, 30)
               /\ SavingsComponent(scoreArgs.savings_rate) = 40

C21_Witness ==
    /\ scoreArgs.savings_rate = SavingsRate(100, 70)
    /\ scoreArgs.liabilities = 2
    /\ scoreArgs.net_worth = 7
    /\ scoreArgs.credit_score = Num(651)
    /\ Cardinality(DOMAIN scoreArgs.diversification) = 2
    /\ scored.discipline_score = Num(40 + 20 + 15 + 10)

\* C22: the freedom score of every projection lies between 0 and 100,
\* for a negative net worth and a negative savings rate too.
C22_FreedomScoreInRange ==
    Returned =>
        \A p \in Projections :
            /\ RatGe(dna[p].financial_freedom_score, 0)
            /\ ~RatGt(dna[p].financial_freedom_score, 100)

\* The rules of the recommendation list that fire, as the claim states
\* them: a credit score that is present and below 750 fires, 0 included.
FiredRules ==
    LET a == scoreArgs
    IN  (IF a.savings_rate.n < 20 * a.savings_rate.d THEN <<RecSavings>> ELSE <<>>)
        \o (IF Cardinality(DOMAIN a.diversification) < 3 THEN <<RecDiversify>> ELSE <<>>)
        \o (IF a.credit_score.t = "num" /\ a.credit_score.v < 750
            THEN <<RecCredit>> ELSE <<>>)
        \o (IF scored.discipline_score.v < 60 THEN <<RecPlan>> ELSE <<>>)

\* C23: the recommendation list is the fired rules in rule order, the
\* improve-credit rule firing for every present credit score below 750
\* (0 included); it has no duplicates, is never empty, and is the single
\* maintenance recommendation exactly when no rule fired.
C23_RecommendationRules ==
    scored.recommendations # <<>> =>
        LET recs == scored.recommendations
        IN  /\ FiredRules # <<>> => recs = FiredRules
            /\ FiredRules = <<>> <=> recs = <<RecMaintain>>
            /\ \A i, j \in DOMAIN recs : recs[i] = recs[j] => i = j

\* ======================================================================
\* Properties of the source count and of the breakdowns (SpecPipe, SpecAgg)
\* ======================================================================

\* C24: the successful-source count leaves out every source whose data
\* carries an error or is incomplete (and every missing one), and the
\* percentage is successful_sources / 6 * 100.
C24_SuccessfulSourcesAreOkOnly ==
    phase = "done" =>
        /\ error_analysis.successful_sources = Cardinality(OkSources(state))
        /\ error_analysis.health_percentage.n * Cardinality(Sources)
               = error_analysis.successful_sources * 100
                    * error_analysis.health_percentage.d

\* The sum of the values of a breakdown dict.
RECURSIVE SumValues(_)
SumValues(f) ==
    IF DOMAIN f = {} THEN 0
    ELSE LET k == CHOOSE x \in DOMAIN f : TRUE
         IN  f[k] + SumValues([x \in DOMAIN f \ {k} |-> f[x]])

\* The sum of the units of the entries that carry no category.
RECURSIVE SumUncategorised(_)
SumUncategorised(entries) ==
    IF entries = <<>> THEN 0
    ELSE (IF Head(entries).netWorthAttribute = Missing
          THEN FloatOf(Head(entries).units) ELSE 0)
         + SumUncategorised(Tail(entries))

\* The values of the breakdown sum to the total, and the entries without
\* a category are accumulated under "Unknown".
BreakdownAccounts(entries, breakdown, total) ==
    /\ SumValues(breakdown) = total
    /\ (\E i \in DOMAIN entries : entries[i].netWorthAttribute = Missing) =>
           /\ "Unknown" \in DOMAIN breakdown
           /\ breakdown["Unknown"] = SumUncategorised(entries)

\* C25: for every list of asset entries, entries of the same category and
\* entries with no category included, the values of asset_breakdown sum to
\* total_assets and the entries with no category are accumulated under
\* "Unknown"; likewise for liability_breakdown and total_liabilities.
C25_BreakdownSumsToTotal ==
    (Returned /\ IsDict(data.net_worth)) =>
        /\ BreakdownAccounts(data.net_worth.assetValues, dna.asset_breakdown,
                             dna.total_assets)
        /\ BreakdownAccounts(data.net_worth.liabilityValues,
                             dna.liability_breakdown, dna.total_liabilities)

\* ======================================================================
\* Properties of the monitor's counters and of its health check
\* (SpecMonitor)
\* ======================================================================

\* Every tracked agent's counters add up and its error rate is
\* failed_requests / total_requests.
MetricsSound(metrics) ==
    \A a \in DOMAIN metrics :
        LET m == metrics[a]
        IN  /\ m.total_requests = m.successful_requests + m.failed_requests
            /\ m.total_requests >= 1
            /\ m.error_rate.n * m.total_requests = m.failed_requests * m.error_rate.d
            /\ RatGe(m.error_rate, 0)
            /\ ~RatGt(m.error_rate, 1)

\* C26: after any sequence of record_agent_request calls every tracked
\* agent has total_requests = successful_requests + failed_requests >= 1
\* and error_rate = failed_requests / total_requests; no counter ever
\* decreases, and a call for one agent leaves the other agents' metrics
\* as they were.
C26_CountersConsistent ==
    [][/\ MetricsSound(agent_metrics')
       /\ \A a \in DOMAIN agent_metrics :
              /\ a \in DOMAIN agent_metrics'
              /\ agent_metrics'[a].total_requests >= agent_metrics[a].total_requests
              /\ agent_metrics'[a].successful_requests
                     >= agent_metrics[a].successful_requests
              /\ agent_metrics'[a].failed_requests >= agent_metrics[a].failed_requests
              /\ record_calls'[a] = record_calls[a] =>
                     agent_metrics'[a] = agent_metrics[a]
       /\ Cardinality({a \in Sources : record_calls'[a] # record_calls[a]}) <= 1
      ]_vars

C26_Witness ==
    /\ Cardinality(DOMAIN agent_metrics) = 3
    /\ \E a \in DOMAIN agent_metrics :
           /\ agent_metrics[a].successful_requests = 1
           /\ agent_metrics[a].failed_requests = 1
           /\ agent_metrics[a].error_rate = Rat(1, 2)

\* C28: health_check stores degraded exactly when some tracked agent has
\* an error rate above 50 percent and healthy otherwise, returns what it
\* stores, and reports an agent whose average response time is above 30
\* seconds as an issue without a change of the status; a degraded monitor
\* is healthy again at the check that finds every error rate at most 50
\* percent.
C28_StatusFollowsErrorRates ==
    [][last_read'.fn = "health_check" =>
          LET failing == {a \in DOMAIN agent_metrics :
                             agent_metrics[a].failed_requests * 100
                                 > 50 * agent_metrics[a].total_requests}
              slow == {a \in DOMAIN agent_metrics :
                          agent_metrics[a].avg_response_time.n
                              > 30 * agent_metrics[a].avg_response_time.d}
          IN  /\ health_status' = IF failing = {} THEN "healthy" ELSE "degraded"
              /\ last_read'.status = health_status'
              /\ last_read'.issues = failing \cup slow]_vars

C28_Witness ==
    /\ last_read.fn = "health_check"
    /\ last_read.status = "healthy"
    /\ last_read.issues # {}
    /\ \E a \in DOMAIN agent_metrics :
           /\ agent_metrics[a].failed_requests = 1
           /\ agent_metrics[a].total_requests = 2

\* ======================================================================
\* Properties of the retry decorator's course (SpecRetryFair)
\* ======================================================================

\* The wait before retry number k, counted from 0.
ExpectedWait(k) ==
    IF retryCfg.exponential_backoff THEN retryCfg.delay * (2 ^ k) ELSE retryCfg.delay

\* Where the wrapper stands agrees with what it has done: a value is
\* returned by the first call that succeeds, a sleep follows each failed
\* call but the last, each wait is the expected one, and the calls are
\* bounded.
RetryCourse ==
    /\ invocations <= retryCfg.max_retries + 1
    /\ \A k \in DOMAIN sleeps : sleeps[k] = ExpectedWait(k - 1)
    /\ retryPc = "returned" =>
           /\ retryResult = Num(invocations)
           /\ failures = invocations - 1
           /\ Len(sleeps) = failures
    /\ retryPc = "raised" => Len(sleeps) = failures - 1
    /\ retryPc \in {"sleeping", "calling"} => Len(sleeps) = failures
    /\ retryPc # "returned" => retryResult = NoValue

\* C27: the wrapper returns the value of the first call that succeeds and
\* calls no more after it; it sleeps only between a failed call and the
\* next one, never after the last failure; the wait before retry k is
\* delay * 2^k with exponential backoff and delay without; and it ends
\* after at most max_retries + 1 calls.
C27_RetryCourseAndTermination ==
    /\ []RetryCourse
    /\ [][retryPc = "returned" => invocations' = invocations /\ sleeps' = sleeps]_vars
    /\ <>RetryOver

C27_Witness ==
    /\ retryPc = "returned"
    /\ retryCfg.exponential_backoff
    /\ retryCfg.delay = 2
    /\ sleeps = <<2, 4, 8>>
    /\ retryResult = Num(4)

\* ======================================================================
\* Properties of simple_build_dna (SpecSimple)
\* ======================================================================

\* C29: any two calls of simple_build_dna write under distinct session
\* ids: once their tasks have run, each call that was stored still has its
\* own document.
C29_EachCallKeepsItsDocument ==
    \A i, j \in DOMAIN built :
        i # j =>
            /\ built[i] # built[j]
            /\ (tasks = {} /\ Matches(store, built[i]) /\ Matches(store, built[j]))
                  => /\ DocsOf(store, built[i]) = <<Doc(built[i], DataOfCall(i))>>
                     /\ DocsOf(store, built[j]) = <<Doc(built[j], DataOfCall(j))>>

\* ======================================================================
\* Properties of build_conversation_context (SpecContext)
\* ======================================================================

\* C30: a call of build_conversation_context for a session whose DNA is
\* absent, or whose read fails, returns the 'No Financial DNA found'
\* message and leaves the contexts as they were; a call that writes has
\* read a DNA document of that session, the context it leaves carries that
\* document's session_id and user_id, the other sessions' contexts are
\* untouched, and no session has more than one context.
C30_ContextOnlyFromDnaRead ==
    [][ctxCall' # ctxCall =>
         LET call == ctxCall'
             found == DocsOf(store, call.session_id)
         IN  /\ (found = <<>> \/ ~call.reachable) =>
                    /\ call.message = NoDnaFound
                    /\ ~call.wrote
             /\ ~call.wrote => contexts' = contexts
             /\ call.wrote =>
                    /\ found # <<>>
                    /\ call.read = found[1]
                    /\ \E context \in {contexts'[i] : i \in DOMAIN contexts'} :
                           /\ DocsOf(contexts', call.session_id) = <<context>>
                           /\ context.session_id = found[1].session_id
                           /\ context.user_id = UserIdOf(found[1].profile)
                    /\ \A s \in SessionIds \ {call.session_id} :
                           DocsOf(contexts', s) = DocsOf(contexts, s)
             /\ \A s \in SessionIds : Len(DocsOf(contexts', s)) <= 1]_vars

\* A call wrote the context of a DNA of user_B over the simple context of
\* its session, while the other session keeps its own.
C30_Witness ==
    /\ ctxCall.wrote
    /\ ctxCall.session_id = "s2"
    /\ ctxCall.read = Doc("s2", "dnaB")
    /\ contexts = <<SimpleContext("s1"), _build_context_from_dna(Doc("s2", "dnaB"))>>

====
